---- MODULE Spec2Model ----
(***************************************************************************)
(* A model of the resilient crawl engine of shoppin-crawler:               *)
(*   - BasePlatformCrawler (src/src/base.py): _request, safe_run,          *)
(*     output_data, and the run()/crawl() loops of the five platform       *)
(*     crawlers (src/src/platforms/*.py), driven by run_crawler            *)
(*     (src/main.py);                                                      *)
(*   - main --all (src/main.py): the thread pool over all crawlers;        *)
(*   - PlatformChecker.get_token (src/social_scan_platforms.py);           *)
(*   - query / execute_queries (src/social_scan_utils.py);                 *)
(*   - CrawlerRegistry under register / get_crawler calls;                 *)
(*   - two crawler instances and the checkers running at the same time.    *)
(* Each part has its own specification over its own variables; the         *)
(* variables of the other parts stay at their idle values.                 *)
(***************************************************************************)
EXTENDS Integers, Sequences, FiniteSets, TLC

---------------------------------------------------------------------------
(* Bounds of the model *)

\* the server hands out at most this many non-empty pages in one crawl
MaxPages == 2

\* how many of NykaaFashion's collection ids are visited
MaxCollections == 2

\* at most this many HTTP attempts of one crawl fail (transport fault, error
\* response or wrong content type that _request sees)
MaxFailures == 3

\* at most this many get_token() calls are made on one checker
MaxCalls == 3

\* at most this many crawlers of one --all run raise an unhandled fault
MaxFaults == 2

\* at most this many register calls are made on the registry
MaxRegistrations == 3

\* the largest finite MAX_PAGES a crawler class is configured with
MaxPageLimit == 2

---------------------------------------------------------------------------
(* Program constants *)

MAX_RETRIES == 3
DELAY == 2
tatacliq_total_pages == 100

\* main: --workers default; execute_queries: ThreadPoolExecutor(max_workers=80)
default_workers == 3
query_workers == 80

\* MAX_PAGES = float("inf"): no finite page limit
MAX_PAGES == [finite |-> FALSE, n |-> 0]

\* the values self.MAX_PAGES has: the class default, or a finite limit set on
\* the crawler class
MaxPagesChoices ==
  {MAX_PAGES} \cup { [finite |-> TRUE, n |-> n] : n \in 1..MaxPageLimit }

---------------------------------------------------------------------------
(* Data *)

NoneVal == "None"

\* raw products as a site returns them (id, name, url path)
I1  == [id |-> "1", name |-> "a", url |-> "p1"]
I1b == [id |-> "1", name |-> "b", url |-> "p1"]
I2  == [id |-> "2", name |-> "a", url |-> "p2"]
I3  == [id |-> "3", name |-> "a", url |-> "p3"]

\* the non-empty pages a site may answer with
PageChoices == { <<I1, I2>>, <<I2, I3>>, <<I1, I1b>> }

\* what one HTTP attempt can produce: a transport fault (the call raises), or a
\* response that is not JSON, is a JSON error object, or is a JSON page
Answer(t) ==
  [type |-> t, items |-> <<>>, hasNext |-> FALSE, endCursor |-> 0, totalPages |-> 0]

Fault == Answer("fault")
NonJson == Answer("nonjson")
ApiErr == Answer("apierr")
NoResponse == Answer("none")

TotalPagesChoices == {0, 1, 2}

RECURSIVE SeqToSet(_)
SeqToSet(s) == IF s = <<>> THEN {} ELSE {Head(s)} \cup SeqToSet(Tail(s))

RECURSIVE Count(_, _)
Count(s, x) ==
  IF s = <<>> THEN 0
  ELSE (IF Head(s) = x THEN 1 ELSE 0) + Count(Tail(s), x)

---------------------------------------------------------------------------
(* Registry *)

\* str.upper() on the names the model uses
upper(n) ==
  CASE n \in {"westside", "WESTSIDE", "Westside", "westSide"} -> "WESTSIDE"
    [] n \in {"virgio", "VIRGIO", "Virgio"} -> "VIRGIO"
    [] n \in {"tatacliq", "TATACLIQ"} -> "TATACLIQ"
    [] n \in {"nykaafashion", "NYKAAFASHION"} -> "NYKAAFASHION"
    [] n \in {"inmyprime", "INMYPRIME"} -> "INMYPRIME"
    [] OTHER -> "MYNTRA"

\* the @CrawlerRegistry.register(...) decorators, in import order
RegisteredNames == <<"westside", "virgio", "tatacliq", "nykaafashion", "inmyprime">>

\* CrawlerRegistry.register: _crawlers[name.upper()] = crawler_class
registerVerbatim(crawlers, n, crawler_class) ==
  [k \in DOMAIN crawlers \cup {n} |-> IF k = n THEN crawler_class ELSE crawlers[k]]
register(crawlers, n, crawler_class) ==
  [k \in DOMAIN crawlers \cup {upper(n)} |->
     IF k = upper(n) THEN crawler_class ELSE crawlers[k]]

\* the class each decorator is put on, named as the model names crawler classes
RegisteredClass(n) == upper(n)

RECURSIVE RegisterAll(_, _)
RegisterAll(crawlers, names) ==
  IF names = <<>> THEN crawlers
  ELSE RegisterAll(register(crawlers, Head(names), RegisteredClass(Head(names))),
                   Tail(names))

\* CrawlerRegistry._crawlers after `from src.platforms import *`
Crawlers == RegisterAll(<<>>, RegisteredNames)

\* CrawlerRegistry.get_crawler: _crawlers.get(name.upper())
get_crawlerFallback(n) == "WESTSIDE"
get_crawler(n) ==
  IF upper(n) \in DOMAIN Crawlers THEN Crawlers[upper(n)] ELSE NoneVal

\* the same lookup on a registry in any state: dict.get(name.upper())
dict_get(crawlers, n) ==
  IF upper(n) \in DOMAIN crawlers THEN crawlers[upper(n)] ELSE NoneVal

\* list(cls._crawlers.keys()) on a registry in any state
dict_keys(crawlers) == DOMAIN crawlers

\* CrawlerRegistry.available_crawlers: list(_crawlers.keys())
available_crawlers == [i \in 1..Len(RegisteredNames) |-> upper(RegisteredNames[i])]

---------------------------------------------------------------------------
(* State *)

VARIABLES
  \* -- one crawler driven by run_crawler --
  max_pages,      \* self.MAX_PAGES of the crawler
  crawler_name,   \* the name run_crawler was called with
  kind,           \* the crawler class the name resolved to
  pc,             \* position in run_crawler / safe_run / run / _request
  exc,            \* the exception in flight ("none" when there is none)
  run_exc,        \* the exception run() ended with ("none": it returned)
  outcome,        \* what run_crawler returned: <<name, flag>>
  page_number,    \* run(): page_number
  total_pages,    \* TataCliqCrawler.total_pages
  coll,           \* NykaaFashionCrawler.run: index into collection_ids
  cursor,         \* VirgioCrawler.params["cursor"]
  retry_count,    \* _request: retry_count
  request_count,  \* self.request_count
  att,            \* how each attempt of the current _request call ended
  sleeps,         \* the sleeps of the current _request call, in order
  response,       \* the response _request returned to crawl()
  fetched,        \* the pages crawl() has read, in order
  sent,           \* the cursor each crawl() call was sent with, in order
  DATAFRAME,      \* self.DATAFRAME: the accumulated rows
  data_saved,     \* self.data_saved
  writes,         \* the to_csv calls made: rows handed over and how it ended
  \* -- PlatformChecker instances (the token cache) --
  token,            \* self.token of each checker
  prerequest_sent,  \* self.prerequest_sent of each checker
  checker_requests, \* self.request_count of each checker
  acquisitions,     \* how often prerequest() of each checker was invoked
  returned,         \* how each get_token() call on each checker ended, in order
  calls,            \* the get_token() call each worker thread is in
  \* -- the orchestrators: main --all and execute_queries --
  mode,           \* "crawl": one run_crawler; "all": main --all;
                  \* "availability": execute_queries; "tokens": get_token calls
  workers,        \* max_workers of the ThreadPoolExecutor
  is_email,       \* whether EMAIL_REGEX matches the query
  platforms,      \* the platforms execute_queries was called with
  checkers,       \* execute_queries: the dict init_checkers returned
  main_pc,        \* position of the orchestrator
  work_queue,     \* the executor's queue of submitted, unstarted tasks
  st,             \* position of each task
  fault,          \* where each task's unhandled fault was raised ("none")
  result,         \* the result of each task's future
  seen,           \* the futures as_completed has yielded to main
  reported,       \* what the orchestrator returned
  \* -- the registry under register / get_crawler calls --
  registry,       \* CrawlerRegistry._crawlers
  reg_log,        \* the last call made on the registry and what it returned
  reg_calls,      \* how many register calls were made
  \* -- two crawler instances running at the same time --
  c_pc,           \* position of each instance
  c_retry,        \* retry_count of the _request call each instance is in
  c_reqs,         \* self.request_count of each instance
  c_resp,         \* the response _request returned to each instance
  c_df,           \* the instance attribute DATAFRAME: <<>> while the instance
                  \* has none, <<rows>> once it was assigned
  class_df,       \* the class attribute BasePlatformCrawler.DATAFRAME
  c_saved,        \* self.data_saved of each instance
  c_parsed,       \* the rows each instance parsed
  c_writes,       \* the to_csv calls of each instance
  class_headers   \* the class attribute BasePlatformCrawler.DEFAULT_HEADERS:
                  \* header name |-> who set it

crawlVars == <<max_pages, crawler_name, kind, pc, exc, run_exc, outcome, page_number, total_pages,
               coll, cursor, retry_count, request_count, att, sleeps, response,
               fetched, sent, DATAFRAME, data_saved, writes>>

tokVars == <<token, prerequest_sent, checker_requests, acquisitions, returned,
             calls>>

orchVars == <<mode, workers, is_email, platforms, checkers, main_pc, work_queue, st, fault,
              result, seen, reported>>

regVars == <<registry, reg_log, reg_calls>>

concVars == <<c_pc, c_retry, c_reqs, c_resp, c_df, class_df, c_saved, c_parsed,
              c_writes, class_headers>>

vars == <<crawlVars, tokVars, orchVars, regVars, concVars>>

---------------------------------------------------------------------------
(* The request layer: BasePlatformCrawler._request *)

\* get_json: a content type that is not application/json raises QueryError
get_json_raises(r) == r.type = "nonjson"

\* check_error of each crawler class: "true", "false", or "raise" (QueryError
\* out of get_json)
check_error(k, r) ==
  CASE k \in {"WESTSIDE", "VIRGIO"} -> "false"
    [] k = "INMYPRIME" -> "false"
    [] k = "TATACLIQ" ->
         IF get_json_raises(r) THEN "raise"
         ELSE IF r.type = "apierr" THEN "true" ELSE "false"
    [] k = "NYKAAFASHION" ->
         IF get_json_raises(r) THEN "raise"
         ELSE IF r.type = "data" THEN "false" ELSE "true"

\* the while condition of _request
WhileCondOffByOne(rc) == rc <= MAX_RETRIES
WhileCond(rc) == rc < MAX_RETRIES

\* sleep(self.DELAY * (retry_count + 1)), retry_count already incremented
BackoffConstant(rc) == DELAY
Backoff(rc) == DELAY * (rc + 1)

\* jittered_delay = DELAY * (0.5 + random.random()), in whole seconds
JitterChoices == {d \in 1..(2 * DELAY) : 2 * d >= DELAY /\ 2 * d < 3 * DELAY}

\* check_error(response) was true: count, sleep, continue
ErrorBranchNoCount(rc) ==
  [retry_count |-> rc,
   slept |-> <<[kind |-> "backoff", dur |-> Backoff(rc + 1)]>>,
   next |-> "continue", exc |-> "none"]
ErrorBranch(rc) ==
  LET n == rc + 1 IN
  [retry_count |-> n,
   slept |-> <<[kind |-> "backoff", dur |-> Backoff(n)]>>,
   next |-> "continue", exc |-> "none"]

\* except (RequestException, QueryError): count, re-raise at the ceiling, else sleep
ExceptBranch(rc, e) ==
  LET n == rc + 1 IN
  IF n = MAX_RETRIES
  THEN [retry_count |-> n, slept |-> <<>>, next |-> "raise", exc |-> e]
  ELSE [retry_count |-> n,
        slept |-> <<[kind |-> "backoff", dur |-> Backoff(n)]>>,
        next |-> "continue", exc |-> "none"]

\* no error: sleep(jittered_delay); return response
ReturnBranch(rc, j) ==
  [retry_count |-> rc, slept |-> <<[kind |-> "jitter", dur |-> j]>>,
   next |-> "return", exc |-> "none"]

\* how an attempt is classified
AttemptTag(k, o) ==
  IF o.type = "fault" THEN "fault"
  ELSE CASE check_error(k, o) = "raise" -> "ctype"
         [] check_error(k, o) = "true" -> "error"
         [] OTHER -> "ok"

\* the body of one iteration of the while loop of _request
RequestIter(k, rc, o, j) ==
  CASE AttemptTag(k, o) = "fault" -> ExceptBranch(rc, "RequestException")
    [] AttemptTag(k, o) = "ctype" -> ExceptBranch(rc, "QueryError")
    [] AttemptTag(k, o) = "error" -> ErrorBranch(rc)
    [] OTHER -> ReturnBranch(rc, j)

---------------------------------------------------------------------------
(* The sites *)

NonEmpty(f) == Len(SelectSeq(f, LAMBDA pg : pg # <<>>))

\* the JSON (or HTML) pages a site may answer with: a non-empty page while it
\* has pages left, the empty page always
DataOutcomes(k, f) ==
  { [type |-> "data", items |-> it, hasNext |-> h, endCursor |-> Len(f) + 1,
     totalPages |-> t] :
      it \in PageChoices, h \in (IF k = "VIRGIO" THEN BOOLEAN ELSE {TRUE}),
      t \in (IF k = "TATACLIQ" THEN TotalPagesChoices ELSE {0}) }

EmptyPage == [Answer("data") EXCEPT !.endCursor = 0]

ServerOutcomes(k, f) ==
  {Fault, EmptyPage}
    \cup (IF k = "INMYPRIME" THEN {} ELSE {NonJson, ApiErr})
    \cup (IF NonEmpty(f) < MaxPages THEN DataOutcomes(k, f) ELSE {})

\* the attempts of a crawl that failed so far: all but the ones _request
\* returned from
Failures(rc, f, p) == rc - Len(f) - (IF p = "parse" THEN 1 ELSE 0)

---------------------------------------------------------------------------
(* crawl() and parse_data() of the platform crawlers *)

\* NykaaFashionCrawler.collection_ids, cut to MaxCollections entries
collection_ids == [i \in 1..MaxCollections |-> i + 1]

\* parse_data: one Product row per raw product
Row(k, it) ==
  [product_id |-> IF k = "INMYPRIME" THEN "" ELSE it.id,
   product_name |-> it.name,
   product_url |-> IF k = "WESTSIDE" THEN <<it.url>> ELSE <<k, it.url>>]

\* self.DATAFRAME = pd.concat([self.DATAFRAME, df], ignore_index=True)
parse_dataDiscard(k, df, items) == df
parse_data(k, df, items) == df \o [i \in 1..Len(items) |-> Row(k, items[i])]

\* the else branch of `if <key> in product_data and product_data[<key>]`
NoProductsNever(r) == FALSE
NoProducts(r) == r.items = <<>>

\* self.params["cursor"] = page_info["endCursor"]
NextCursorStale(cur, r) == cur
NextCursor(cur, r) == r.endCursor

\* if not page_info["hasNextPage"]
NoNextPageIgnored(r) == FALSE
NoNextPage(r) == ~r.hasNext

CrawlResult(res, e, df, cur, tp) ==
  [result |-> res, exc |-> e, df |-> df, cursor |-> cur, total_pages |-> tp]

\* crawl() on the response r that _request returned
crawl(k, r, df, cur, tp) ==
  CASE k = "INMYPRIME" ->
         IF r.type = "data" /\ ~NoProducts(r)
         THEN CrawlResult("true", "none", parse_data(k, df, r.items), cur, tp)
         ELSE CrawlResult("false", "none", df, cur, tp)
    [] get_json_raises(r) -> CrawlResult("raise", "QueryError", df, cur, tp)
    [] r.type = "apierr" -> CrawlResult("raise", "KeyError", df, cur, tp)
    [] NoProducts(r) -> CrawlResult("false", "none", df, cur, tp)
    [] k = "VIRGIO" ->
         IF NoNextPage(r)
         THEN CrawlResult("false", "none", parse_data(k, df, r.items), cur, tp)
         ELSE CrawlResult("true", "none", parse_data(k, df, r.items),
                          NextCursor(cur, r), tp)
    [] k = "TATACLIQ" ->
         CrawlResult("true", "none", parse_data(k, df, r.items), cur, r.totalPages)
    [] OTHER -> CrawlResult("true", "none", parse_data(k, df, r.items), cur, tp)

\* page_number < self.MAX_PAGES
BelowMaxPages(p, mp) == ~mp.finite \/ p < mp.n

\* the loop condition of run()
LoopCondNoTotalPages(k, p, tp, mp) ==
  CASE k \in {"WESTSIDE", "NYKAAFASHION"} -> BelowMaxPages(p, mp)
    [] OTHER -> TRUE
LoopCond(k, p, tp, mp) ==
  CASE k \in {"WESTSIDE", "NYKAAFASHION"} -> BelowMaxPages(p, mp)
    [] k = "TATACLIQ" -> p <= tp
    [] OTHER -> TRUE

\* for collection_id in self.collection_ids: collection number c is not the
\* last one
MoreCollectionsNever(k, c) == FALSE
MoreCollections(k, c) == k = "NYKAAFASHION" /\ c < Len(collection_ids)

\* the first page number of run()
FirstPage(k) == IF k = "TATACLIQ" THEN 0 ELSE 1

\* the most crawl() calls a run makes on these sites
FetchCap == MaxPages + MaxCollections + 1

---------------------------------------------------------------------------
(* The accumulator: BasePlatformCrawler.output_data *)

\* DataFrame.drop_duplicates: the first occurrence of every row, in order
drop_duplicatesKeepAll(df) == df
RECURSIVE drop_duplicatesKeepLast(_)
drop_duplicatesKeepLast(df) ==
  IF df = <<>> THEN <<>>
  ELSE IF Head(df) \in SeqToSet(Tail(df))
       THEN drop_duplicatesKeepLast(Tail(df))
       ELSE <<Head(df)>> \o drop_duplicatesKeepLast(Tail(df))
RECURSIVE drop_duplicates(_)
drop_duplicates(df) ==
  IF df = <<>> THEN <<>>
  ELSE LET rest == drop_duplicates(SubSeq(df, 1, Len(df) - 1))
           last == df[Len(df)]
       IN IF last \in SeqToSet(rest) THEN rest ELSE Append(rest, last)

\* how a to_csv call can end: the file written; a fault after part of the file
\* was written; a fault before anything was written
CsvResults == {"ok", "partial", "nofile"}

\* the early return of output_data
NothingToOutputNoFlag(df, saved) == df = <<>>
NothingToOutputFlagOnly(df, saved) == saved
NothingToOutput(df, saved) == df = <<>> \/ saved

\* output_data() on accumulator df, with the to_csv call ending as o
output_data(df, saved, o) ==
  IF NothingToOutput(df, saved)
  THEN [df |-> df, saved |-> saved, wrote |-> <<>>, raised |-> FALSE]
  ELSE [df |-> drop_duplicates(df),
        saved |-> IF o = "ok" THEN TRUE ELSE saved,
        wrote |-> <<[rows |-> drop_duplicates(df), result |-> o]>>,
        raised |-> o # "ok"]

\* the to_csv calls that put bytes on disk
Emitted(w) == SelectSeq(w, LAMBDA x : x.result # "nofile")

---------------------------------------------------------------------------
(* The parts that are not running: the state right after construction *)

\* the checker classes of the model: Booking and Instagram define prerequest,
\* Trivago does not
Checkers == {"BOOKING", "INSTAGRAM", "TRIVAGO"}

\* hasattr(platform.value, "prerequest")
HasPrerequest(c) == c \in {"BOOKING", "INSTAGRAM"}

\* the worker threads that may call get_token() at the same time
Workers == {"w1", "w2"}

\* a thread that is not inside get_token()
NoTokenCall == [pc |-> "idle", on |-> NoneVal]

\* PlatformChecker.__init__: request_count = 0, prerequest_sent = False,
\* token = None
CheckerInit ==
  /\ token = [c \in Checkers |-> NoneVal]
  /\ prerequest_sent = [c \in Checkers |-> FALSE]
  /\ checker_requests = [c \in Checkers |-> 0]
  /\ acquisitions = [c \in Checkers |-> 0]
  /\ returned = [c \in Checkers |-> <<>>]
  /\ calls = [w \in Workers |-> NoTokenCall]

\* the platform lists execute_queries is called with (the default,
\* list(Platforms), is the first)
PlatformLists ==
  { <<"BOOKING", "TRIVAGO">>, <<"BOOKING">>, <<"TRIVAGO", "BOOKING">>,
    <<"BOOKING", "BOOKING">>, <<"INSTAGRAM">> }

\* the tasks an orchestrator can submit, numbered in submission order
TaskIds ==
  (1..Len(available_crawlers)) \cup UNION { 1..Len(p) : p \in PlatformLists }

\* no orchestrator is running
OrchIdle(m) ==
  /\ mode = m
  /\ workers = 0
  /\ is_email = FALSE
  /\ platforms = <<>>
  /\ checkers = <<>>
  /\ main_pc = "idle"
  /\ work_queue = <<>>
  /\ st = [t \in TaskIds |-> "idle"]
  /\ fault = [t \in TaskIds |-> "none"]
  /\ result = [t \in TaskIds |-> <<>>]
  /\ seen = {}
  /\ reported = <<>>

\* the registry as the import of src.platforms left it; no call in progress
NoCall == [op |-> "none", name |-> NoneVal, cls |-> NoneVal, result |-> NoneVal]

RegIdle ==
  /\ registry = Crawlers
  /\ reg_log = NoCall
  /\ reg_calls = 0

\* the two crawler instances that run at the same time, and their classes
ConcInstances == {"A", "B"}

ConcKind(i) == IF i = "A" THEN "WESTSIDE" ELSE "VIRGIO"

\* DEFAULT_HEADERS as the class body defines it
DEFAULT_HEADERS == [h \in {"content-type"} |-> "class"]

\* nothing constructed yet: the class attribute DATAFRAME = pd.DataFrame()
ConcStart(p) ==
  /\ c_pc = [i \in ConcInstances |-> p]
  /\ c_retry = [i \in ConcInstances |-> 0]
  /\ c_reqs = [i \in ConcInstances |-> 0]
  /\ c_resp = [i \in ConcInstances |-> NoResponse]
  /\ c_df = [i \in ConcInstances |-> <<>>]
  /\ class_df = <<>>
  /\ c_saved = [i \in ConcInstances |-> FALSE]
  /\ c_parsed = [i \in ConcInstances |-> <<>>]
  /\ c_writes = [i \in ConcInstances |-> <<>>]
  /\ class_headers = DEFAULT_HEADERS

---------------------------------------------------------------------------
(* One crawler, from run_crawler(crawler_name) to its return *)

\* the names run_crawler is called with
RequestedNames ==
  {"westside", "virgio", "tatacliq", "nykaafashion", "inmyprime", "myntra"}

Init ==
  /\ max_pages \in MaxPagesChoices
  /\ crawler_name \in RequestedNames
  /\ kind = NoneVal
  /\ pc = "resolve"
  /\ exc = "none"
  /\ run_exc = "none"
  /\ outcome = <<>>
  /\ page_number = 0
  /\ total_pages = 0
  /\ coll = 0
  /\ cursor = 0
  /\ retry_count = 0
  /\ request_count = 0
  /\ att = <<>>
  /\ sleeps = <<>>
  /\ response = NoResponse
  /\ fetched = <<>>
  /\ sent = <<>>
  /\ DATAFRAME = <<>>
  /\ data_saved = FALSE
  /\ writes = <<>>
  /\ CheckerInit
  /\ OrchIdle("crawl")
  /\ RegIdle
  /\ ConcStart("idle")

\* what run_crawler returns once the try block ended with exception e
RunCrawlerResultAlwaysTrue(n, e) == <<n, TRUE>>
RunCrawlerResultKeyErrorOnly(n, e) == <<n, e # "KeyError">>
RunCrawlerResult(n, e) == <<n, e = "none">>

\* run_crawler: crawler_class = CrawlerRegistry.get_crawler(crawler_name);
\* None raises KeyError, which its own except turns into (name, False)
Resolve ==
  /\ pc = "resolve"
  /\ IF get_crawler(crawler_name) = NoneVal
     THEN /\ exc' = "KeyError"
          /\ outcome' = RunCrawlerResult(crawler_name, "KeyError")
          /\ pc' = "done"
          /\ kind' = kind
     ELSE /\ kind' = get_crawler(crawler_name)
          /\ pc' = "construct"
          /\ UNCHANGED <<exc, outcome>>
  /\ UNCHANGED <<max_pages, crawler_name, run_exc, page_number, total_pages, coll, cursor,
                 retry_count, request_count, att, sleeps, response, fetched,
                 sent, DATAFRAME, data_saved, writes>>
  /\ UNCHANGED <<tokVars, orchVars, regVars, concVars>>

\* crawler = crawler_class(): __init__ sets the instance fields, or raises
Construct ==
  /\ pc = "construct"
  /\ \E ok \in BOOLEAN :
       IF ok
       THEN /\ request_count' = 0
            /\ data_saved' = FALSE
            /\ total_pages' = IF kind = "TATACLIQ" THEN tatacliq_total_pages ELSE 0
            /\ page_number' = FirstPage(kind)
            /\ coll' = IF kind = "NYKAAFASHION" THEN 1 ELSE 0
            /\ pc' = "loop"
            /\ UNCHANGED <<exc, outcome>>
       ELSE /\ exc' = "Exception"
            /\ outcome' = RunCrawlerResult(crawler_name, "Exception")
            /\ pc' = "done"
            /\ UNCHANGED <<request_count, data_saved, total_pages, page_number, coll>>
  /\ UNCHANGED <<max_pages, crawler_name, kind, run_exc, cursor, retry_count, att, sleeps,
                 response, fetched, sent, DATAFRAME, writes>>
  /\ UNCHANGED <<tokVars, orchVars, regVars, concVars>>

\* run(): the loop condition; a true one calls crawl(), which enters _request;
\* a false one ends the while loop, which in NykaaFashion's run() is the loop
\* of one collection, the for loop going on with the next one at page 1
LoopHead ==
  /\ pc = "loop"
  /\ IF LoopCond(kind, page_number, total_pages, max_pages)
     THEN /\ Len(sent) < FetchCap
          /\ pc' = "request"
          /\ retry_count' = 0
          /\ att' = <<>>
          /\ sleeps' = <<>>
          /\ sent' = Append(sent, [page |-> page_number, cursor |-> cursor,
                                   coll |-> coll])
          /\ UNCHANGED <<page_number, coll>>
     ELSE /\ IF MoreCollections(kind, coll)
             THEN /\ coll' = coll + 1
                  /\ page_number' = 1
                  /\ pc' = "loop"
             ELSE /\ pc' = "flush"
                  /\ UNCHANGED <<page_number, coll>>
          /\ UNCHANGED <<retry_count, att, sleeps, sent>>
  /\ UNCHANGED <<max_pages, crawler_name, kind, exc, run_exc, outcome,
                 total_pages, cursor, request_count, response, fetched,
                 DATAFRAME, data_saved, writes>>
  /\ UNCHANGED <<tokVars, orchVars, regVars, concVars>>

\* where an exception e raised inside crawl() goes: crawl() and run() have no
\* except clause, so it leaves both and safe_run's finally block is next
UnwindIntoLoop(e) == "loop"
Unwind(e) == "finally"

\* _request: one iteration of the while loop, the site answering with o; the
\* raise after the loop belongs to the iteration that ends the loop
RequestAttempt ==
  /\ pc = "request"
  /\ \E o \in ServerOutcomes(kind, fetched), j \in JitterChoices :
       LET it == RequestIter(kind, retry_count, o, j) IN
       /\ AttemptTag(kind, o) # "ok" => Failures(request_count, fetched, pc) < MaxFailures
       /\ request_count' = request_count + 1
       /\ att' = Append(att, [tag |-> AttemptTag(kind, o), answer |-> o])
       /\ retry_count' = it.retry_count
       /\ sleeps' = sleeps \o it.slept
       /\ CASE it.next = "return" ->
                 /\ response' = o
                 /\ pc' = "parse"
                 /\ UNCHANGED <<exc, run_exc>>
            [] it.next = "raise" ->
                 /\ exc' = it.exc
                 /\ run_exc' = it.exc
                 /\ pc' = Unwind(it.exc)
                 /\ response' = response
            [] OTHER ->
                 IF WhileCond(it.retry_count)
                 THEN /\ pc' = "request"
                      /\ UNCHANGED <<exc, run_exc, response>>
                 ELSE /\ exc' = "QueryError"
                      /\ run_exc' = "QueryError"
                      /\ pc' = Unwind("QueryError")
                      /\ response' = response
  /\ UNCHANGED <<max_pages, crawler_name, kind, outcome, page_number, total_pages, coll,
                 cursor, fetched, sent, DATAFRAME, data_saved, writes>>
  /\ UNCHANGED <<tokVars, orchVars, regVars, concVars>>

\* crawl() on the returned response, then the rest of the loop body of run()
Crawl ==
  /\ pc = "parse"
  /\ LET c == crawl(kind, response, DATAFRAME, cursor, total_pages) IN
       /\ fetched' = Append(fetched, response.items)
       /\ response' = NoResponse
       /\ DATAFRAME' = c.df
       /\ cursor' = c.cursor
       /\ total_pages' = c.total_pages
       /\ CASE c.result = "raise" ->
                 /\ exc' = c.exc
                 /\ run_exc' = c.exc
                 /\ pc' = Unwind(c.exc)
                 /\ UNCHANGED <<page_number, coll>>
            [] c.result = "true" ->
                 /\ page_number' = page_number + 1
                 /\ pc' = "loop"
                 /\ UNCHANGED <<exc, run_exc, coll>>
            [] OTHER ->
                 IF MoreCollections(kind, coll)
                 THEN /\ coll' = coll + 1
                      /\ page_number' = 1
                      /\ pc' = "loop"
                      /\ UNCHANGED <<exc, run_exc>>
                 ELSE /\ pc' = "flush"
                      /\ UNCHANGED <<exc, run_exc, page_number, coll>>
  /\ retry_count' = 0
  /\ att' = <<>>
  /\ sleeps' = <<>>
  /\ UNCHANGED <<max_pages, crawler_name, kind, outcome, request_count, sent, data_saved,
                 writes>>
  /\ UNCHANGED <<tokVars, orchVars, regVars, concVars>>

\* run(): self.output_data() after the loop
RunFlush ==
  /\ pc = "flush"
  /\ \E o \in CsvResults :
       LET f == output_data(DATAFRAME, data_saved, o) IN
       /\ DATAFRAME' = f.df
       /\ data_saved' = f.saved
       /\ writes' = writes \o f.wrote
       /\ exc' = IF f.raised THEN "OSError" ELSE exc
       /\ run_exc' = IF f.raised THEN "OSError" ELSE run_exc
  /\ pc' = "finally"
  /\ UNCHANGED <<max_pages, crawler_name, kind, outcome, page_number, total_pages, coll,
                 cursor, retry_count, request_count, att, sleeps, response,
                 fetched, sent>>
  /\ UNCHANGED <<tokVars, orchVars, regVars, concVars>>

\* safe_run: finally: self.output_data(), a fault of this call replacing the one
\* in flight; then run_crawler returns crawler_name, True, or its except
\* returns crawler_name, False
FinallyFlush ==
  /\ pc = "finally"
  /\ \E o \in CsvResults :
       LET f == output_data(DATAFRAME, data_saved, o)
           e == IF f.raised THEN "OSError" ELSE exc
       IN
       /\ DATAFRAME' = f.df
       /\ data_saved' = f.saved
       /\ writes' = writes \o f.wrote
       /\ exc' = e
       /\ outcome' = RunCrawlerResult(crawler_name, e)
  /\ pc' = "done"
  /\ retry_count' = 0
  /\ att' = <<>>
  /\ sleeps' = <<>>
  /\ UNCHANGED <<max_pages, crawler_name, kind, run_exc, page_number, total_pages, coll,
                 cursor, request_count, response, fetched, sent>>
  /\ UNCHANGED <<tokVars, orchVars, regVars, concVars>>

Next ==
  \/ Resolve
  \/ Construct
  \/ LoopHead
  \/ RequestAttempt
  \/ Crawl
  \/ RunFlush
  \/ FinallyFlush

Spec == Init /\ [][Next]_vars

\* the crawler is one thread: whatever step it is at, it takes
\* (the steps up to the end of the pagination loop; every HTTP call has a
\* timeout, every sleep is finite)
FairSpec ==
  /\ Spec
  /\ WF_vars(Resolve)
  /\ WF_vars(Construct)
  /\ WF_vars(LoopHead)
  /\ WF_vars(RequestAttempt)
  /\ WF_vars(Crawl)

---------------------------------------------------------------------------
(* No crawler is running (the specifications of the other parts) *)

CrawlIdle ==
  /\ max_pages = MAX_PAGES
  /\ crawler_name = NoneVal
  /\ kind = NoneVal
  /\ pc = "idle"
  /\ exc = "none"
  /\ run_exc = "none"
  /\ outcome = <<>>
  /\ page_number = 0
  /\ total_pages = 0
  /\ coll = 0
  /\ cursor = 0
  /\ retry_count = 0
  /\ request_count = 0
  /\ att = <<>>
  /\ sleeps = <<>>
  /\ response = NoResponse
  /\ fetched = <<>>
  /\ sent = <<>>
  /\ DATAFRAME = <<>>
  /\ data_saved = FALSE
  /\ writes = <<>>

---------------------------------------------------------------------------
(* The token cache: PlatformChecker.get_token *)

\* the values a token endpoint hands out
Tokens == {"t1", "t2"}

\* the HTTP requests prerequest() makes when it runs to its return:
\* Booking.prerequest does two GETs, Instagram.prerequest one
PrerequestReqs(c) == IF c = "BOOKING" THEN 2 ELSE 1

\* how one prerequest() call can end: it returns a token, it returns None (the
\* cookie or field is absent), or it raises after some of its requests (a
\* transport fault, or the page does not have the expected shape)
PrerequestOutcomes(c) ==
  { [raised |-> FALSE, value |-> v, reqs |-> PrerequestReqs(c)] :
      v \in Tokens \cup {NoneVal} }
  \cup
  { [raised |-> TRUE, value |-> NoneVal, reqs |-> n] : n \in 1..PrerequestReqs(c) }

\* get_token: `if self.prerequest_sent:`
AlreadySentNever(sentflag) == FALSE
AlreadySent(sentflag) == sentflag

\* get_token on a checker whose fields are tok and sentflag, when prerequest()
\* would end as o: the fields afterwards, whether prerequest was invoked, the
\* requests it made, and how the call ended (a token, "QueryError", or "Fault"
\* for the exception prerequest raised)
get_token(tok, sentflag, o) ==
  IF AlreadySent(sentflag)
  THEN [token |-> tok, prerequest_sent |-> sentflag, invoked |-> FALSE, reqs |-> 0,
        result |-> IF tok = NoneVal THEN "QueryError" ELSE tok]
  ELSE IF o.raised
       THEN [token |-> tok, prerequest_sent |-> sentflag, invoked |-> TRUE,
             reqs |-> o.reqs, result |-> "Fault"]
       ELSE [token |-> o.value, prerequest_sent |-> TRUE, invoked |-> TRUE,
             reqs |-> o.reqs,
             result |-> IF o.value = NoneVal THEN "QueryError" ELSE o.value]

\* the effect of one get_token() call on checker c
GetTokenOn(c, o) ==
  LET g == get_token(token[c], prerequest_sent[c], o) IN
  /\ token' = [token EXCEPT ![c] = g.token]
  /\ prerequest_sent' = [prerequest_sent EXCEPT ![c] = g.prerequest_sent]
  /\ checker_requests' = [checker_requests EXCEPT ![c] = @ + g.reqs]
  /\ acquisitions' = [acquisitions EXCEPT ![c] = @ + (IF g.invoked THEN 1 ELSE 0)]
  /\ returned' = [returned EXCEPT ![c] = Append(@, g.result)]
  /\ calls' = calls

InitTok ==
  /\ CrawlIdle
  /\ CheckerInit
  /\ OrchIdle("tokens")
  /\ RegIdle
  /\ ConcStart("idle")

\* a caller invokes get_token() on one of the checkers
GetTokenCall ==
  \E c \in Checkers : \E o \in PrerequestOutcomes(c) :
    /\ HasPrerequest(c)
    /\ Len(returned[c]) < MaxCalls
    /\ GetTokenOn(c, o)
    /\ UNCHANGED <<crawlVars, orchVars, regVars, concVars>>

NextTok == GetTokenCall

SpecTok == InitTok /\ [][NextTok]_vars

---------------------------------------------------------------------------
(* get_token() called by two threads at the same time *)

\* the get_token() calls on checker c that have not returned yet
InFlight(c) == { w \in Workers : calls[w].on = c }

\* a thread calls get_token() on checker c: `if self.prerequest_sent:` is
\* tested; when the flag is set the call ends at once with the token or with
\* QueryError, else the thread goes into self.prerequest()
TokenTest(w) ==
  \E c \in Checkers :
    /\ HasPrerequest(c)
    /\ calls[w] = NoTokenCall
    /\ Len(returned[c]) + Cardinality(InFlight(c)) < MaxCalls
    /\ IF AlreadySent(prerequest_sent[c])
       THEN /\ returned' = [returned EXCEPT ![c] =
                              Append(@, IF token[c] = NoneVal THEN "QueryError"
                                        ELSE token[c])]
            /\ UNCHANGED <<acquisitions, calls>>
       ELSE /\ acquisitions' = [acquisitions EXCEPT ![c] = @ + 1]
            /\ calls' = [calls EXCEPT ![w] = [pc |-> "prerequest", on |-> c]]
            /\ returned' = returned
    /\ UNCHANGED <<token, prerequest_sent, checker_requests>>
    /\ UNCHANGED <<crawlVars, orchVars, regVars, concVars>>

\* self.prerequest() of that thread ends as o: self.token = <its value>;
\* self.prerequest_sent = True; the token is returned or QueryError raised. An
\* exception out of prerequest() skips both assignments
TokenAcquire(w) ==
  \E o \in PrerequestOutcomes(calls[w].on) :
    LET c == calls[w].on IN
    /\ calls[w].pc = "prerequest"
    /\ checker_requests' = [checker_requests EXCEPT ![c] = @ + o.reqs]
    /\ IF o.raised
       THEN /\ returned' = [returned EXCEPT ![c] = Append(@, "Fault")]
            /\ UNCHANGED <<token, prerequest_sent>>
       ELSE /\ token' = [token EXCEPT ![c] = o.value]
            /\ prerequest_sent' = [prerequest_sent EXCEPT ![c] = TRUE]
            /\ returned' = [returned EXCEPT ![c] =
                              Append(@, IF o.value = NoneVal THEN "QueryError"
                                        ELSE o.value)]
    /\ calls' = [calls EXCEPT ![w] = NoTokenCall]
    /\ UNCHANGED acquisitions
    /\ UNCHANGED <<crawlVars, orchVars, regVars, concVars>>

NextTokConc ==
  \/ \E w \in Workers : TokenTest(w)
  \/ \E w \in Workers : TokenAcquire(w)

SpecTokConc == InitTok /\ [][NextTokConc]_vars

---------------------------------------------------------------------------
(* The orchestrators: main --all, and execute_queries *)

\* what query() hands back: <<>> is None, <<r>> a PlatformResponse r
PlatformResponse(p, a, v, s, m) ==
  [platform |-> p, available |-> a, valid |-> v, success |-> s, message |-> m]

response_failure(p) == PlatformResponse(p, FALSE, FALSE, FALSE, "Failure")
response_available(p) == PlatformResponse(p, TRUE, TRUE, TRUE, "Available")
response_unavailable(p) == PlatformResponse(p, FALSE, TRUE, TRUE, "Unavailable")
response_invalidNoSuccess(p) == PlatformResponse(p, FALSE, TRUE, FALSE, "Invalid")
response_invalid(p) == PlatformResponse(p, FALSE, FALSE, TRUE, "Invalid")

\* the record query() builds in its except clause
QueryFailureAsAvailable(p) == PlatformResponse(p, TRUE, TRUE, TRUE, "")
QueryFailure(p) == PlatformResponse(p, FALSE, FALSE, FALSE, "")

\* hasattr(platform.value, "check_email")
HasCheckEmail(p) == p \in {"BOOKING", "INSTAGRAM", "TRIVAGO"}

\* how check_email can end once its POST is made: one of the responses, None
\* (Booking: a nextStep that is neither of the two known ones), or an exception
\* (transport fault, body that is not JSON, missing key); Instagram also answers
\* response_invalid (code "invalid_email")
CheckOutcomes(p) ==
  {"available", "unavailable", "failure", "raise"}
    \cup (IF p = "BOOKING" THEN {"none"} ELSE {})
    \cup (IF p = "INSTAGRAM" THEN {"invalid"} ELSE {})

\* query(): what the task's future holds given how check_email ended
QueryResult(p, o) ==
  CASE o = "available" -> <<response_available(p)>>
    [] o = "unavailable" -> <<response_unavailable(p)>>
    [] o = "failure" -> <<response_failure(p)>>
    [] o = "invalid" -> <<response_invalid(p)>>
    [] OTHER -> <<QueryFailure(p)>>

\* the pool sizes main --all is run with: --workers 1 and the default
WorkerChoices == {1, default_workers}

\* the tasks of this run
Tasks ==
  IF mode = "all" THEN 1..Len(available_crawlers)
  ELSE IF mode = "availability" THEN 1..Len(platforms)
  ELSE {}

\* the name a task works on
TaskName(t) == IF mode = "all" THEN available_crawlers[t] ELSE platforms[t]

Done == { t \in Tasks : st[t] = "done" }
Running == { t \in Tasks : st[t] \notin {"idle", "queued", "done"} }

\* the orchestrator waits for every future: as_completed(...) is exhausted,
\* asyncio.gather(...) has all its results
AnyFinished(ts, fin) == ts \cap fin # {}
AllFinished(ts, fin) == ts \subseteq fin

\* [x for x in results if x is not None], results in submission order
RECURSIVE Gathered(_, _)
Gathered(res, n) ==
  IF n = 0 THEN <<>> ELSE Gathered(res, n - 1) \o res[n]

InitOrch ==
  /\ CrawlIdle
  /\ CheckerInit
  /\ RegIdle
  /\ ConcStart("idle")
  /\ mode \in {"all", "availability"}
  /\ IF mode = "all"
     THEN /\ workers \in WorkerChoices
          /\ platforms = <<>>
          /\ is_email = FALSE
     ELSE /\ workers = query_workers
          /\ platforms \in PlatformLists
          /\ is_email \in BOOLEAN
  /\ checkers = <<>>
  /\ main_pc = IF mode = "all" THEN "submit" ELSE "init"
  /\ work_queue = <<>>
  /\ st = [t \in TaskIds |-> "idle"]
  /\ fault = [t \in TaskIds |-> "none"]
  /\ result = [t \in TaskIds |-> <<>>]
  /\ seen = {}
  /\ reported = <<>>

\* `with requests.Session() as session`: the one session of the call
HttpSession == "session"

\* PlatformChecker.__init__(session, proxy_list): self.session = session
PlatformChecker_initOwnSession(p, session) == [session |-> <<p, session>>]
PlatformChecker_init(p, session) == [session |-> <<session>>]

\* init_checkers: checkers[platform] = platform.value(session, ...) for every
\* platform of the list
init_checkers(session, ps) ==
  [p \in SeqToSet(ps) |-> PlatformChecker_init(p, session)]

\* execute_queries up to the submission of the tasks: the session is opened and
\* the checkers are built on it; __init__ sets request_count = 0,
\* prerequest_sent = False, token = None and calls nothing
InitCheckers ==
  /\ mode = "availability"
  /\ main_pc = "init"
  /\ checkers' = init_checkers(HttpSession, platforms)
  /\ token' = [c \in Checkers |-> IF c \in SeqToSet(platforms) THEN NoneVal ELSE token[c]]
  /\ prerequest_sent' =
       [c \in Checkers |-> IF c \in SeqToSet(platforms) THEN FALSE ELSE prerequest_sent[c]]
  /\ checker_requests' =
       [c \in Checkers |-> IF c \in SeqToSet(platforms) THEN 0 ELSE checker_requests[c]]
  /\ main_pc' = "submit"
  /\ UNCHANGED <<acquisitions, returned, calls>>
  /\ UNCHANGED <<mode, workers, is_email, platforms, work_queue, st, fault, result,
                 seen, reported>>
  /\ UNCHANGED <<crawlVars, regVars, concVars>>

\* executor.submit(run_crawler, crawler) / loop.run_in_executor(executor, query,
\* ...): the next task, in list order, is put on the executor's queue
Submit ==
  /\ main_pc = "submit"
  /\ LET t == Cardinality({ u \in Tasks : st[u] # "idle" }) + 1 IN
       IF t \in Tasks
       THEN /\ st' = [st EXCEPT ![t] = "queued"]
            /\ work_queue' = Append(work_queue, t)
            /\ main_pc' = main_pc
       ELSE /\ main_pc' = "wait"
            /\ UNCHANGED <<st, work_queue>>
  /\ UNCHANGED <<checkers, mode, workers, is_email, platforms, fault, result, seen, reported>>
  /\ UNCHANGED <<crawlVars, tokVars, regVars, concVars>>

\* ThreadPoolExecutor: a queued task is taken when a thread is idle or the pool
\* may still grow, i.e. while fewer than max_workers tasks are running
PoolUnbounded(running, max_workers) == TRUE
PoolHasThread(running, max_workers) == Cardinality(running) < max_workers

\* a pool thread takes the oldest queued task; the pool has at most
\* max_workers threads
StartTask ==
  /\ work_queue # <<>>
  /\ PoolHasThread(Running, workers)
  /\ st' = [st EXCEPT ![Head(work_queue)] =
                 IF mode = "all" THEN "construct" ELSE "query"]
  /\ work_queue' = Tail(work_queue)
  /\ UNCHANGED <<checkers, mode, workers, is_email, platforms, main_pc, fault, result, seen,
                 reported>>
  /\ UNCHANGED <<crawlVars, tokVars, regVars, concVars>>

\* run_crawler up to crawler_class(): the constructor may raise, and the except
\* clause turns that into (name, False)
TaskConstruct ==
  \E t \in Tasks : \E ok \in BOOLEAN :
    /\ st[t] = "construct"
    /\ ~ok => Cardinality({ u \in Tasks : fault[u] # "none" }) < MaxFaults
    /\ IF ok
       THEN /\ st' = [st EXCEPT ![t] = "run"]
            /\ UNCHANGED <<fault, result>>
       ELSE /\ st' = [st EXCEPT ![t] = "done"]
            /\ fault' = [fault EXCEPT ![t] = "ctor"]
            /\ result' = [result EXCEPT ![t] = RunCrawlerResult(TaskName(t), "Exception")]
    /\ UNCHANGED <<checkers, mode, workers, is_email, platforms, main_pc, work_queue, seen,
                   reported>>
    /\ UNCHANGED <<crawlVars, tokVars, regVars, concVars>>

\* safe_run's try block: run() returns, or raises while paginating, or raises
\* in its own output_data()
TaskRun ==
  \E t \in Tasks : \E e \in {"none", "run", "flush"} :
    /\ st[t] = "run"
    /\ e # "none" => Cardinality({ u \in Tasks : fault[u] # "none" }) < MaxFaults
    /\ st' = [st EXCEPT ![t] = "finally"]
    /\ fault' = [fault EXCEPT ![t] = e]
    /\ UNCHANGED <<checkers, mode, workers, is_email, platforms, main_pc, work_queue, result,
                   seen, reported>>
    /\ UNCHANGED <<crawlVars, tokVars, regVars, concVars>>

\* safe_run's finally block and run_crawler's return. After a run() that
\* returned the frame is empty or saved and output_data() does nothing; after
\* one that raised it writes, and may raise
TaskFinally ==
  \E t \in Tasks : \E raises \in BOOLEAN :
    /\ st[t] = "finally"
    /\ raises => fault[t] # "none"
    /\ fault' = [fault EXCEPT ![t] = IF raises THEN "flush" ELSE @]
    /\ result' = [result EXCEPT ![t] =
                     RunCrawlerResult(TaskName(t),
                                      IF fault[t] = "none" THEN "none" ELSE "Exception")]
    /\ st' = [st EXCEPT ![t] = "done"]
    /\ UNCHANGED <<checkers, mode, workers, is_email, platforms, main_pc, work_queue, seen,
                   reported>>
    /\ UNCHANGED <<crawlVars, tokVars, regVars, concVars>>

\* main: `for future in as_completed(...)`: a finished future is yielded once;
\* future.result() is logged
Collect ==
  \E t \in Tasks :
    /\ mode = "all"
    /\ main_pc = "wait"
    /\ st[t] = "done"
    /\ t \notin seen
    /\ seen' = seen \cup {t}
    /\ reported' = Append(reported, result[t])
    /\ UNCHANGED <<checkers, mode, workers, is_email, platforms, main_pc, work_queue, st,
                   fault, result>>
    /\ UNCHANGED <<crawlVars, tokVars, regVars, concVars>>

\* main: the loop over as_completed ends, the with block shuts the pool down
\* (wait=True), main returns
MainReturn ==
  /\ mode = "all"
  /\ main_pc = "wait"
  /\ AllFinished(Tasks, seen)
  /\ main_pc' = "returned"
  /\ UNCHANGED <<checkers, mode, workers, is_email, platforms, work_queue, st, fault, result,
                 seen, reported>>
  /\ UNCHANGED <<crawlVars, tokVars, regVars, concVars>>

\* query(): is_email and hasattr(platform.value, "check_email"), else the
\* function falls off its end and returns None
QueryBegin ==
  \E t \in Tasks :
    /\ st[t] = "query"
    /\ IF is_email /\ HasCheckEmail(TaskName(t))
       THEN /\ st' = [st EXCEPT ![t] =
                        IF HasPrerequest(TaskName(t)) THEN "token" ELSE "check"]
            /\ result' = result
       ELSE /\ st' = [st EXCEPT ![t] = "done"]
            /\ result' = [result EXCEPT ![t] = <<>>]
    /\ UNCHANGED <<checkers, mode, workers, is_email, platforms, main_pc, work_queue, fault,
                   seen, reported>>
    /\ UNCHANGED <<crawlVars, tokVars, regVars, concVars>>

\* Booking.check_email: token = self.get_token(); an exception from it ends
\* query() in its except clause
QueryToken ==
  \E t \in Tasks : \E o \in PrerequestOutcomes(TaskName(t)) :
    /\ st[t] = "token"
    /\ GetTokenOn(TaskName(t), o)
    /\ IF returned'[TaskName(t)][Len(returned'[TaskName(t)])] \in Tokens
       THEN /\ st' = [st EXCEPT ![t] = "check"]
            /\ UNCHANGED <<fault, result>>
       ELSE /\ st' = [st EXCEPT ![t] = "done"]
            /\ fault' = [fault EXCEPT ![t] = "token"]
            /\ result' = [result EXCEPT ![t] = <<QueryFailure(TaskName(t))>>]
    /\ UNCHANGED <<checkers, mode, workers, is_email, platforms, main_pc, work_queue, seen,
                   reported>>
    /\ UNCHANGED <<crawlVars, regVars, concVars>>

\* check_email: the POST and the reading of its answer; query() turns None and
\* exceptions into its failure record
QueryCheck ==
  \E t \in Tasks : \E o \in CheckOutcomes(TaskName(t)) :
    /\ st[t] = "check"
    /\ checker_requests' = [checker_requests EXCEPT ![TaskName(t)] = @ + 1]
    /\ result' = [result EXCEPT ![t] = QueryResult(TaskName(t), o)]
    /\ fault' = [fault EXCEPT ![t] = IF o \in {"raise", "none"} THEN "check" ELSE @]
    /\ st' = [st EXCEPT ![t] = "done"]
    /\ UNCHANGED <<checkers, mode, workers, is_email, platforms, main_pc, work_queue, seen,
                   reported>>
    /\ UNCHANGED <<token, prerequest_sent, acquisitions, returned, calls>>
    /\ UNCHANGED <<crawlVars, regVars, concVars>>

\* execute_queries: `await asyncio.gather(...)` resumes, the results that are
\* not None are returned, the with blocks close the session and the pool
GatherReturn ==
  /\ mode = "availability"
  /\ main_pc = "wait"
  /\ AllFinished(Tasks, Done)
  /\ main_pc' = "returned"
  /\ reported' = Gathered(result, Len(platforms))
  /\ UNCHANGED <<checkers, mode, workers, is_email, platforms, work_queue, st, fault, result,
                 seen>>
  /\ UNCHANGED <<crawlVars, tokVars, regVars, concVars>>

NextOrch ==
  \/ InitCheckers
  \/ Submit
  \/ StartTask
  \/ TaskConstruct
  \/ TaskRun
  \/ TaskFinally
  \/ Collect
  \/ MainReturn
  \/ QueryBegin
  \/ QueryToken
  \/ QueryCheck
  \/ GatherReturn

SpecOrch == InitOrch /\ [][NextOrch]_vars

\* the orchestrator builds its checkers and submits all its tasks without
\* waiting; a pool thread that is free
\* takes the next queued task; a run_crawler call ends (every HTTP call has a
\* timeout, every sleep is finite, the site runs out of pages)
FairSpecOrch ==
  /\ SpecOrch
  /\ WF_vars(InitCheckers)
  /\ WF_vars(Submit)
  /\ WF_vars(StartTask)
  /\ WF_vars(TaskConstruct)
  /\ WF_vars(TaskRun)
  /\ WF_vars(TaskFinally)

---------------------------------------------------------------------------
(* The registry under calls: CrawlerRegistry.register / get_crawler *)

\* the spellings names are registered and looked up with
Spellings ==
  {"westside", "WESTSIDE", "Westside", "westSide", "virgio", "VIRGIO", "Virgio",
   "myntra"}

\* the classes that get registered
Classes == {"WESTSIDE", "VIRGIO"}

InitReg ==
  /\ CrawlIdle
  /\ CheckerInit
  /\ OrchIdle("registry")
  /\ ConcStart("idle")
  /\ registry = <<>>
  /\ reg_log = NoCall
  /\ reg_calls = 0

\* @CrawlerRegistry.register(n) on class c
RegisterCall ==
  \E n \in Spellings : \E c \in Classes :
    /\ reg_calls < MaxRegistrations
    /\ registry' = register(registry, n, c)
    /\ reg_log' = [op |-> "register", name |-> n, cls |-> c, result |-> c]
    /\ reg_calls' = reg_calls + 1
    /\ UNCHANGED <<crawlVars, tokVars, orchVars, concVars>>

\* CrawlerRegistry.get_crawler(m)
GetCrawlerCall ==
  \E m \in Spellings :
    /\ reg_log' = [op |-> "get_crawler", name |-> m, cls |-> NoneVal,
                   result |-> dict_get(registry, m)]
    /\ UNCHANGED <<registry, reg_calls>>
    /\ UNCHANGED <<crawlVars, tokVars, orchVars, concVars>>

NextReg ==
  \/ RegisterCall
  \/ GetCrawlerCall

SpecReg == InitReg /\ [][NextReg]_vars

---------------------------------------------------------------------------
(* Two crawler instances and the checkers, running at the same time *)

\* where the retry counter of instance i's _request call lives: retry_count is
\* a local variable of the call
RetryCellShared(i) == "A"
RetryCell(i) == i

\* reading self.DATAFRAME: the instance attribute, or the class attribute while
\* the instance has none
getattr_DATAFRAME(inst, cls) == IF inst = <<>> THEN cls ELSE inst[1]

\* self.DATAFRAME = v: binds the instance attribute
setattr_on_class(inst, cls, v) == [inst |-> inst, cls |-> v]
setattr_DATAFRAME(inst, cls, v) == [inst |-> <<v>>, cls |-> cls]

\* self.DATAFRAME.drop_duplicates(inplace=True): changes the object that the
\* read found
inplace_DATAFRAME(inst, cls, v) ==
  IF inst = <<>> THEN [inst |-> inst, cls |-> v] ELSE [inst |-> <<v>>, cls |-> cls]

\* d[k] = v on a dict
dict_set(d, k, v) == [x \in DOMAIN d \cup {k} |-> IF x = k THEN v ELSE d[x]]

\* __init__ of instance i of class k: self.DEFAULT_HEADERS[...] = ... finds the
\* dict of the base class (no crawler class and no instance has its own) and
\* stores into it
init_headers(k, i, d) ==
  LET ua == dict_set(d, "User-Agent", i) IN
  IF k = "WESTSIDE"
  THEN dict_set(dict_set(ua, "x-api-key", i), "x-store-id", i)
  ELSE ua

\* _request: kwargs["headers"] = self.DEFAULT_HEADERS: the headers the request
\* of an attempt goes out with
request_headers(d) == d

\* the one page of products the site of each instance holds
ConcPage(i) == IF i = "A" THEN <<I1, I1b>> ELSE <<I2, I3>>

\* what the site of instance i may answer: a fault, the empty page, and its
\* page of products while the instance has not read it
ConcAnswers(i) ==
  {Fault, EmptyPage}
    \cup (IF c_parsed[i] = <<>>
          THEN {[Answer("data") EXCEPT !.items = ConcPage(i), !.hasNext = TRUE,
                                       !.endCursor = 1]}
          ELSE {})

InitConc ==
  /\ CrawlIdle
  /\ CheckerInit
  /\ OrchIdle("pair")
  /\ RegIdle
  /\ ConcStart("construct")

\* __init__ of instance i, and run() up to its first _request call
ConcConstruct(i) ==
  /\ c_pc[i] = "construct"
  /\ c_reqs' = [c_reqs EXCEPT ![i] = 0]
  /\ c_saved' = [c_saved EXCEPT ![i] = FALSE]
  /\ c_retry' = [c_retry EXCEPT ![RetryCell(i)] = 0]
  /\ c_pc' = [c_pc EXCEPT ![i] = "request"]
  /\ class_headers' = init_headers(ConcKind(i), i, class_headers)
  /\ UNCHANGED <<c_resp, c_df, class_df, c_parsed, c_writes>>
  /\ UNCHANGED <<crawlVars, tokVars, orchVars, regVars>>

\* one iteration of the while loop of instance i's _request call
ConcAttempt(i) ==
  /\ c_pc[i] = "request"
  /\ \E o \in ConcAnswers(i), j \in JitterChoices :
       LET it == RequestIter(ConcKind(i), c_retry[RetryCell(i)], o, j) IN
       /\ c_retry' = [c_retry EXCEPT ![RetryCell(i)] = it.retry_count]
       /\ c_reqs' = [c_reqs EXCEPT ![i] = @ + 1]
       /\ CASE it.next = "return" ->
                 /\ c_resp' = [c_resp EXCEPT ![i] = o]
                 /\ c_pc' = [c_pc EXCEPT ![i] = "parse"]
            [] it.next = "raise" ->
                 /\ c_pc' = [c_pc EXCEPT ![i] = Unwind(it.exc)]
                 /\ c_resp' = c_resp
            [] OTHER ->
                 /\ c_pc' = [c_pc EXCEPT ![i] =
                                IF WhileCond(it.retry_count) THEN "request"
                                ELSE Unwind("QueryError")]
                 /\ c_resp' = c_resp
  /\ UNCHANGED <<c_df, class_df, c_saved, c_parsed, c_writes, class_headers>>
  /\ UNCHANGED <<crawlVars, tokVars, orchVars, regVars>>

\* crawl() of instance i on the returned response, and the rest of the loop
\* body of run(): a true result goes on to the next _request call
ConcParse(i) ==
  /\ c_pc[i] = "parse"
  /\ LET df == getattr_DATAFRAME(c_df[i], class_df)
         c == crawl(ConcKind(i), c_resp[i], df, 0, 0)
         items == c_resp[i].items
         bound == IF c.df # df THEN setattr_DATAFRAME(c_df[i], class_df, c.df)
                  ELSE [inst |-> c_df[i], cls |-> class_df]
     IN
     /\ c_df' = [c_df EXCEPT ![i] = bound.inst]
     /\ class_df' = bound.cls
     /\ c_parsed' = [c_parsed EXCEPT ![i] =
                       IF c.df # df
                       THEN @ \o [n \in 1..Len(items) |-> Row(ConcKind(i), items[n])]
                       ELSE @]
     /\ c_pc' = [c_pc EXCEPT ![i] =
                    CASE c.result = "true" -> "request"
                      [] c.result = "raise" -> Unwind(c.exc)
                      [] OTHER -> "flush"]
  /\ c_retry' = [c_retry EXCEPT ![RetryCell(i)] = 0]
  /\ c_resp' = [c_resp EXCEPT ![i] = NoResponse]
  /\ UNCHANGED <<c_reqs, c_saved, c_writes, class_headers>>
  /\ UNCHANGED <<crawlVars, tokVars, orchVars, regVars>>

\* output_data() of instance i, called from position p, going on to q
ConcOutput(i, p, q) ==
  /\ c_pc[i] = p
  /\ \E o \in CsvResults :
       LET f == output_data(getattr_DATAFRAME(c_df[i], class_df), c_saved[i], o)
           m == inplace_DATAFRAME(c_df[i], class_df, f.df)
       IN
       /\ c_df' = [c_df EXCEPT ![i] = m.inst]
       /\ class_df' = m.cls
       /\ c_saved' = [c_saved EXCEPT ![i] = f.saved]
       /\ c_writes' = [c_writes EXCEPT ![i] = @ \o f.wrote]
  /\ c_pc' = [c_pc EXCEPT ![i] = q]
  /\ UNCHANGED <<c_retry, c_reqs, c_resp, c_parsed, class_headers>>
  /\ UNCHANGED <<crawlVars, tokVars, orchVars, regVars>>

\* run(): self.output_data() after the loop
ConcRunFlush(i) == ConcOutput(i, "flush", "finally")

\* safe_run: finally: self.output_data()
ConcFinally(i) == ConcOutput(i, "finally", "done")

\* a checker is asked for its token (once each)
ConcTokenCall ==
  \E c \in Checkers : \E o \in PrerequestOutcomes(c) :
    /\ HasPrerequest(c)
    /\ returned[c] = <<>>
    /\ GetTokenOn(c, o)
    /\ UNCHANGED <<c_pc, c_retry, c_reqs, c_resp, c_df, class_df, c_saved, c_parsed,
                   c_writes, class_headers>>
    /\ UNCHANGED <<crawlVars, orchVars, regVars>>

NextConc ==
  \/ \E i \in ConcInstances : ConcConstruct(i)
  \/ \E i \in ConcInstances : ConcAttempt(i)
  \/ \E i \in ConcInstances : ConcParse(i)
  \/ \E i \in ConcInstances : ConcRunFlush(i)
  \/ \E i \in ConcInstances : ConcFinally(i)
  \/ ConcTokenCall

SpecConc == InitConc /\ [][NextConc]_vars

---------------------------------------------------------------------------
(* Properties of one crawler (Spec, FairSpec) *)

Tags(a) == [i \in 1..Len(a) |-> a[i].tag]
AllTagged(a, t) == \A i \in 1..Len(a) : a[i].tag = t
BackoffSleeps(sl) == SelectSeq(sl, LAMBDA x : x.kind = "backoff")
RunFailedPaginating == run_exc \in {"QueryError", "RequestException", "KeyError"}

\* the rows parse_data made of the pages f
RECURSIVE RowsOf(_, _)
RowsOf(k, f) ==
  IF f = <<>> THEN <<>> ELSE parse_data(k, <<>>, Head(f)) \o RowsOf(k, Tail(f))

\* C1: while every attempt of a _request call is classified an error by
\* check_error, the call goes on attempting without raising until MAX_RETRIES
\* attempts were made, and after exactly MAX_RETRIES it raises QueryError.
C1_RetriesExactlyMaxRetries ==
  (att # <<>> /\ AllTagged(att, "error")) =>
     /\ Len(att) <= MAX_RETRIES
     /\ Len(att) < MAX_RETRIES => (pc = "request" /\ exc = "none")
     /\ Len(att) = MAX_RETRIES => (pc = "finally" /\ exc = "QueryError")

C1_Witness ==
  /\ Tags(att) = <<"error", "error", "error">>
  /\ pc = "finally"
  /\ exc = "QueryError"

\* C2: a _request call whose attempts 1 and 2 fail and whose attempt 3 succeeds
\* returns the response of attempt 3, after exactly two backoff sleeps, the
\* second longer than the first.
C2_ThirdAttemptReturned ==
  (pc = "parse" /\ Len(att) = MAX_RETRIES) =>
     /\ att[1].tag # "ok" /\ att[2].tag # "ok" /\ att[3].tag = "ok"
     /\ response = att[3].answer
     /\ Len(BackoffSleeps(sleeps)) = 2
     /\ BackoffSleeps(sleeps)[1].dur < BackoffSleeps(sleeps)[2].dur

C2_Witness ==
  /\ pc = "parse"
  /\ Tags(att) = <<"error", "error", "ok">>
  /\ response = att[3].answer
  /\ response.items # <<>>

\* C7: one safe_run call emits the physical output write at most once on every
\* termination path, a fault raised by the flush itself included.
C7_AtMostOneEmission == Len(Emitted(writes)) <= 1

\* C8: once output_data has written the artifact, a further output_data call
\* writes nothing and leaves the accumulator and the flushed flag as they are;
\* the artifact is written once, and no write follows it.
C8_FlushIdempotent ==
  /\ [][(data_saved /\ pc \in {"flush", "finally"}) =>
          (writes' = writes /\ DATAFRAME' = DATAFRAME /\ data_saved' = data_saved)]_vars
  /\ [](data_saved =>
          /\ Len(SelectSeq(writes, LAMBDA x : x.result = "ok")) = 1
          /\ writes[Len(writes)].result = "ok")

C8_Witness ==
  /\ pc = "done"
  /\ run_exc = "none"
  /\ data_saved
  /\ Len(writes) = 1
  /\ writes[1].result = "ok"

\* C9: when run() fails with an exception after a page of records was
\* accumulated, safe_run hands those records to the output write exactly once
\* before the exception leaves it.
C9_PartialDataFlushedOnce ==
  (pc = "done" /\ run_exc # "none" /\ NonEmpty(fetched) >= 1) =>
     /\ Len(writes) = 1
     /\ writes[1].rows = drop_duplicates(RowsOf(kind, fetched))

\* C10: when the site ends up reporting no next state and every request gets
\* an answer, the pagination loop ends, after no more fetches than the site has
\* non-empty pages plus one closing fetch per loop.
LoopDone == pc \in {"flush", "finally", "done"}
FetchBound == MaxPages + (IF kind = "NYKAAFASHION" THEN MaxCollections ELSE 1)

C10_PaginationTerminates == <>(LoopDone /\ Len(sent) <= FetchBound)

C10_Witness ==
  /\ pc = "done"
  /\ exc = "none"
  /\ NonEmpty(fetched) = MaxPages
  /\ Len(fetched) = MaxPages + 1
  /\ fetched[Len(fetched)] = <<>>

---------------------------------------------------------------------------
(* Properties of the token cache (SpecTok) *)

TokenValues(r) == { r[i] : i \in { j \in 1..Len(r) : r[j] \in Tokens } }

\* C3: for every checker and any sequence of get_token() calls on it,
\* prerequest is invoked at most once, and all calls that return a value
\* return the same token.
C3_SingleAcquisition ==
  \A c \in Checkers :
    /\ acquisitions[c] <= 1
    /\ Cardinality(TokenValues(returned[c])) <= 1

\* C4: once prerequest has returned None (flag set, token absent), every later
\* get_token() call on that checker ends in QueryError, invokes no acquisition
\* and makes no request, and leaves the checker as it is.
C4_AbsentTokenIsTerminal ==
  [][\A c \in Checkers :
       (prerequest_sent[c] /\ token[c] = NoneVal) =>
          /\ acquisitions'[c] = acquisitions[c]
          /\ checker_requests'[c] = checker_requests[c]
          /\ token'[c] = NoneVal
          /\ prerequest_sent'[c]
          /\ returned'[c] # returned[c] => returned'[c] = Append(returned[c], "QueryError")]_vars

C4_Witness ==
  \E c \in Checkers :
    /\ prerequest_sent[c]
    /\ token[c] = NoneVal
    /\ acquisitions[c] = 1
    /\ returned[c] = <<"QueryError", "QueryError", "QueryError">>

---------------------------------------------------------------------------
(* Properties of the orchestrators (SpecOrch) *)

Faulted == { t \in Tasks : fault[t] # "none" }

Failed(rep) == { i \in 1..Len(rep) : rep[i][2] = FALSE }

\* C5: when main --all has returned and exactly one crawler raised an
\* unhandled fault, there are exactly N outcomes, one per crawler name, exactly
\* one of them marked failed (that crawler's), and every other crawler went
\* through its whole run and reported success.
C5_OneFaultOneFailedOutcome ==
  (mode = "all" /\ main_pc = "returned" /\ Cardinality(Faulted) = 1) =>
     /\ Len(reported) = Len(available_crawlers)
     /\ \A t \in Tasks :
          Cardinality({ i \in 1..Len(reported) : reported[i][1] = TaskName(t) }) = 1
     /\ Cardinality(Failed(reported)) = 1
     /\ \A t \in Tasks :
          /\ st[t] = "done"
          /\ result[t] = <<TaskName(t), fault[t] = "none">>
          /\ \E i \in 1..Len(reported) : reported[i] = result[t]

C5_Witness ==
  /\ mode = "all"
  /\ main_pc = "returned"
  /\ fault = [t \in TaskIds |-> IF t = 2 THEN "flush" ELSE "none"]
  /\ Len(reported) = Len(available_crawlers)
  /\ reported[1] = <<"VIRGIO", FALSE>>

\* C6: when the orchestrator (main --all, execute_queries) has returned, every
\* task it submitted has finished: none is queued or running.
C6_ReturnsAfterAllWorkers ==
  main_pc = "returned" =>
     /\ work_queue = <<>>
     /\ \A t \in Tasks : st[t] = "done"

C6_Witness ==
  /\ mode = "availability"
  /\ main_pc = "returned"
  /\ platforms = <<"BOOKING", "TRIVAGO">>
  /\ st[1] = "done" /\ st[2] = "done"
  /\ fault[1] = "token"
  /\ Len(reported) = 2
  /\ reported[2] = response_available("TRIVAGO")

---------------------------------------------------------------------------
(* Properties of the accumulator and the pagination loop (Spec) *)

Ids(rows) == [i \in 1..Len(rows) |-> rows[i].product_id]

\* C11: at every flush the rows handed to to_csv are exactly the rows parsed
\* from the fetched pages (none lost, none added), and no two of them have the
\* same product id.
C11_UnionWithoutDuplicateIds ==
  \A i \in 1..Len(writes) :
    LET rows == writes[i].rows IN
    /\ SeqToSet(rows) = SeqToSet(RowsOf(kind, fetched))
    /\ \A a, b \in 1..Len(rows) : rows[a].product_id = rows[b].product_id => a = b

\* the scenario: the site's successive pages are {1, 2}, {2, 3}, {empty}
Scenario == fetched = << <<I1, I2>>, <<I2, I3>>, <<>> >>

RequestErrors == {"QueryError", "RequestException"}

\* C13: once _request has raised after exhausting its retries, nothing above it
\* (crawl, run, safe_run, run_crawler) retries: the crawler makes no further
\* HTTP request and no further crawl() call.
C13_RequestErrorIsTerminal ==
  [][(run_exc \in RequestErrors) =>
       (request_count' = request_count /\ sent' = sent
          /\ pc' \notin {"loop", "request", "parse"})]_vars

C13_Witness ==
  /\ pc = "done"
  /\ run_exc = "QueryError"
  /\ fetched = << <<I1, I2>> >>
  /\ Len(sent) = 2
  /\ request_count = 1 + MAX_RETRIES
  /\ outcome = <<crawler_name, FALSE>>

\* the requested name is not registered under any spelling
UnknownName == upper(crawler_name) \notin SeqToSet(available_crawlers)

---------------------------------------------------------------------------
(* Properties of the registry (SpecReg) *)

\* str.lower() on the spellings: two names are equal ignoring letter case when
\* their lower-case forms are equal
lower(n) ==
  CASE n \in {"westside", "WESTSIDE", "Westside", "westSide"} -> "westside"
    [] n \in {"virgio", "VIRGIO", "Virgio"} -> "virgio"
    [] n \in {"myntra", "MYNTRA"} -> "myntra"

SameIgnoringCase(m, n) == lower(m) = lower(n)

\* C15: right after register(n) of class C, get_crawler(m) returns C for every
\* m equal to n ignoring letter case; the registry never holds two names that
\* differ only by case; a get_crawler call answers with the class registered
\* under a name equal ignoring case, or None when there is none; every name the
\* registry lists resolves to the class stored under it.
C15_NamesCaseInsensitive ==
  /\ reg_log.op = "register" =>
       \A m \in Spellings :
         SameIgnoringCase(m, reg_log.name) => dict_get(registry, m) = reg_log.cls
  /\ \A k1, k2 \in dict_keys(registry) : SameIgnoringCase(k1, k2) => k1 = k2
  /\ reg_log.op = "get_crawler" =>
       IF \E k \in dict_keys(registry) : SameIgnoringCase(k, reg_log.name)
       THEN \E k \in dict_keys(registry) :
              SameIgnoringCase(k, reg_log.name) /\ reg_log.result = registry[k]
       ELSE reg_log.result = NoneVal
  /\ \A k \in dict_keys(registry) : dict_get(registry, k) = registry[k]

C15_Witness ==
  /\ reg_log = [op |-> "get_crawler", name |-> "westSide", cls |-> NoneVal,
                result |-> "VIRGIO"]
  /\ dict_keys(registry) = {"WESTSIDE", "VIRGIO"}
  /\ registry["VIRGIO"] = "WESTSIDE"
  /\ reg_calls = MaxRegistrations

---------------------------------------------------------------------------
(* Properties of query / execute_queries (SpecOrch) *)

\* C16: query() never raises: when the platform check faulted (get_token
\* raised, the request or the decoding of its answer raised, or check_email
\* returned None) the task's future holds a failure record of that platform
\* with available, valid and success all false.
C16_QueryFaultBecomesFailureRecord ==
  \A t \in Tasks :
    (mode = "availability" /\ st[t] = "done" /\ fault[t] # "none") =>
       /\ Len(result[t]) = 1
       /\ result[t][1].platform = TaskName(t)
       /\ ~result[t][1].available
       /\ ~result[t][1].valid
       /\ ~result[t][1].success

C16_Witness ==
  /\ mode = "availability"
  /\ platforms = <<"BOOKING", "TRIVAGO">>
  /\ st[1] = "done" /\ fault[1] = "token" /\ returned["BOOKING"] = <<"QueryError">>
  /\ st[2] = "done" /\ fault[2] = "check"
  /\ result[1] = <<QueryFailure("BOOKING")>>
  /\ result[2] = <<QueryFailure("TRIVAGO")>>

\* C17: for any query string and any list of M platforms execute_queries
\* returns exactly M records, the i-th being a record of the i-th platform.
C17_OneRecordPerPlatform ==
  (mode = "availability" /\ main_pc = "returned") =>
     /\ Len(reported) = Len(platforms)
     /\ \A i \in 1..Len(reported) : reported[i].platform = platforms[i]

---------------------------------------------------------------------------
(* Order of the page requests of one crawler (Spec) *)

\* the records of the pages f, one per raw product, in page order
RECURSIVE RecordsOf(_, _)
RecordsOf(k, f) ==
  IF f = <<>> THEN <<>>
  ELSE [i \in 1..Len(Head(f)) |-> Row(k, Head(f)[i])] \o RecordsOf(k, Tail(f))

\* C18: a crawler requests its next page only when every page requested before
\* was answered and its records are appended to the accumulator, and it never
\* has more than one page request outstanding.
C18_PagesStrictlySequential ==
  /\ [][(sent' # sent) =>
          (/\ Len(sent) = Len(fetched)
           /\ response = NoResponse
           /\ DATAFRAME = RecordsOf(kind, fetched)
           /\ Len(sent') = Len(sent) + 1)]_vars
  /\ [](Len(sent) - Len(fetched) \in {0, 1})

C18_Witness ==
  /\ pc = "request"
  /\ Len(sent) = 2
  /\ fetched = << <<I1, I2>> >>
  /\ DATAFRAME = RecordsOf(kind, fetched)
  /\ sent[2].page = sent[1].page + 1

---------------------------------------------------------------------------
(* Properties of instances running at the same time (SpecConc) *)

\* a step of crawler instance i; a get_token() call on checker c
CrawlerStep(i) ==
  \/ ConcConstruct(i)
  \/ ConcAttempt(i)
  \/ ConcParse(i)
  \/ ConcRunFlush(i)
  \/ ConcFinally(i)

CheckerStep(c) == returned'[c] # returned[c]

\* C19: a step of one instance leaves the retry counter and request counter of
\* every other crawler instance, and the token, attempted flag and request
\* counter of every other checker instance, as they are.
C19_CountersAndTokensPerInstance ==
  [][/\ \A i \in ConcInstances :
          CrawlerStep(i) =>
            /\ \A k \in ConcInstances \ {i} :
                  c_retry'[k] = c_retry[k] /\ c_reqs'[k] = c_reqs[k]
            /\ UNCHANGED <<token, prerequest_sent, checker_requests>>
     /\ \A c \in Checkers :
          CheckerStep(c) =>
            /\ \A d \in Checkers \ {c} :
                  /\ token'[d] = token[d]
                  /\ prerequest_sent'[d] = prerequest_sent[d]
                  /\ checker_requests'[d] = checker_requests[d]
            /\ UNCHANGED <<c_retry, c_reqs>>]_vars

C19_Witness ==
  /\ c_pc["A"] = "request" /\ c_retry["A"] = 2 /\ c_reqs["A"] = 2
  /\ c_pc["B"] = "request" /\ c_retry["B"] = 1 /\ c_reqs["B"] = 1
  /\ token["BOOKING"] = "t1" /\ checker_requests["BOOKING"] = 2
  /\ prerequest_sent["INSTAGRAM"] /\ token["INSTAGRAM"] = NoneVal

\* C20: under any interleaving, what a crawler instance has accumulated and
\* what it writes are the rows it parsed itself (its own pages, without
\* duplicates), and the class-level DATAFRAME stays empty.
C20_AccumulatorPerInstance ==
  /\ class_df = <<>>
  /\ \A i \in ConcInstances :
       /\ SeqToSet(getattr_DATAFRAME(c_df[i], class_df)) = SeqToSet(c_parsed[i])
       /\ \A w \in 1..Len(c_writes[i]) :
            c_writes[i][w].rows = drop_duplicates(c_parsed[i])

C20_Witness ==
  /\ c_pc["A"] = "done" /\ c_pc["B"] = "done"
  /\ Len(c_writes["A"]) = 1 /\ c_writes["A"][1].result = "ok"
  /\ Len(c_writes["B"]) = 1 /\ c_writes["B"][1].result = "ok"
  /\ Ids(c_writes["A"][1].rows) = <<"1", "1">>
  /\ Ids(c_writes["B"][1].rows) = <<"2", "3">>
  /\ class_df = <<>>

---------------------------------------------------------------------------
(* Properties of the request layer (Spec) *)

FailedAttempts(a) == SelectSeq(a, LAMBDA x : x.tag # "ok")

\* the _request call the crawler made last has ended by raising
RequestRaised == att # <<>> /\ pc \notin {"request", "parse"}

\* C21: error responses and transport faults of one _request call are counted
\* by the one retry counter: the call never makes more than MAX_RETRIES
\* attempts whatever the mix, it goes on only while the counter is below
\* MAX_RETRIES, and it ends by returning a response check_error accepts or by
\* raising QueryError / RequestException.
C21_MixedFailuresShareCeiling ==
  /\ Len(att) <= MAX_RETRIES
  /\ retry_count = Len(FailedAttempts(att))
  /\ pc = "request" => (Len(att) < MAX_RETRIES /\ FailedAttempts(att) = att)
  /\ pc = "parse" =>
       /\ att # <<>>
       /\ att[Len(att)].tag = "ok"
       /\ response = att[Len(att)].answer
       /\ check_error(kind, response) = "false"
       /\ Len(FailedAttempts(att)) = Len(att) - 1
  /\ RequestRaised =>
       /\ Len(att) = MAX_RETRIES
       /\ FailedAttempts(att) = att
       /\ exc \in {"QueryError", "RequestException"}

C21_Witness ==
  /\ Tags(att) = <<"fault", "error", "fault">>
  /\ RequestRaised
  /\ exc = "RequestException"
  /\ request_count = MAX_RETRIES

\* C22: the i-th failed attempt of a _request call (0-based index i - 1) is
\* followed by a backoff sleep of DELAY * ((i - 1) + 1) seconds: the first
\* retry waits 1 * DELAY, the second 2 * DELAY.
C22_BackoffStartsAtBaseDelay ==
  \A i \in 1..Len(BackoffSleeps(sleeps)) : BackoffSleeps(sleeps)[i].dur = DELAY * i

\* C23: when a _request call of the pagination loop ends by raising, the
\* exception is caught inside run(): the loop ends and run() goes on to its own
\* output_data() and returns, so run() never ends with a RequestException or
\* QueryError and run_crawler reports success.
C23_RequestErrorEndsLoopGracefully ==
  [][(pc = "request" /\ pc' \notin {"request", "parse"}) =>
       (pc' = "flush" /\ run_exc' = "none")]_vars

\* C24: a response whose content type is not JSON never reaches crawl(): for
\* every crawler that decodes JSON, _request counts it as a failed attempt and
\* retries, so the response it returns can be decoded.
C24_NonJsonIsRetried ==
  /\ pc = "parse" => ~get_json_raises(response)
  /\ \A i \in 1..Len(att) : get_json_raises(att[i].answer) => att[i].tag # "ok"

---------------------------------------------------------------------------
(* The token cache when prerequest() raises (SpecTok) *)

\* C25: a get_token() call whose prerequest() raised leaves the checker marked
\* as attempted, and every later get_token() call on it fails with QueryError
\* without invoking prerequest() again.
C25_RaisedAcquisitionIsTerminal ==
  \A c \in Checkers :
    \A i \in 1..Len(returned[c]) :
      returned[c][i] = "Fault" =>
        /\ prerequest_sent[c]
        /\ acquisitions[c] = 1
        /\ \A j \in (i + 1)..Len(returned[c]) : returned[c][j] = "QueryError"

---------------------------------------------------------------------------
(* Deduplication at flush (Spec) *)

\* where row x occurs first in s
FirstIndex(s, x) == CHOOSE i \in 1..Len(s) : s[i] = x /\ \A j \in 1..(i - 1) : s[j] # x

IsPrefix(s, t) == Len(s) <= Len(t) /\ SubSeq(t, 1, Len(s)) = s

\* C26: the rows handed to to_csv hold no row twice (rows equal in id, name
\* and url), hold every row that was accumulated, and stand in the order of
\* their first occurrence; until the flush the accumulator only grows at its
\* end and holds one row per parsed product, duplicates included.
C26_FullRowDedupKeepsFirst ==
  /\ [](\A w \in 1..Len(writes) :
          LET rows == writes[w].rows
              acc == RecordsOf(kind, fetched)
          IN
          /\ \A a, b \in 1..Len(rows) : rows[a] = rows[b] => a = b
          /\ SeqToSet(rows) = SeqToSet(acc)
          /\ \A a, b \in 1..Len(rows) :
               a < b => FirstIndex(acc, rows[a]) < FirstIndex(acc, rows[b]))
  /\ [](pc \in {"loop", "request", "parse"} => DATAFRAME = RecordsOf(kind, fetched))
  /\ [][pc' \in {"loop", "request", "parse"} => IsPrefix(DATAFRAME, DATAFRAME')]_vars

C26_Witness ==
  /\ kind = "WESTSIDE"
  /\ pc = "done"
  /\ fetched = << <<I1, I2>>, <<I1, I1b>>, <<>> >>
  /\ Len(writes) = 1
  /\ writes[1].result = "ok"
  /\ writes[1].rows = <<Row(kind, I1), Row(kind, I2), Row(kind, I1b)>>
  /\ Len(RecordsOf(kind, fetched)) = 4

---------------------------------------------------------------------------
(* The worker pool (FairSpecOrch) *)

Started(t) == st[t] \notin {"idle", "queued"}

\* C27: never more tasks are running than the pool has threads (--workers,
\* 3 by default, for main --all; 80 for execute_queries); a task leaves the
\* queue only from its head to start running, a started task is never queued
\* or started again, and every task of the run is eventually started.
C27_PoolBoundedAllStartedOnce ==
  /\ [][/\ Cardinality(Running') <= workers'
        /\ mode' = "all" => workers' \in {1, default_workers}
        /\ mode' = "availability" => workers' = query_workers
        /\ \A t \in Tasks :
             /\ Started(t) => Started(t)'
             /\ (st[t] = "queued" /\ st'[t] # "queued") =>
                   /\ work_queue # <<>>
                   /\ t = Head(work_queue)
                   /\ t \notin SeqToSet(work_queue')
                   /\ st'[t] \in {"construct", "query"}
             /\ (st[t] = "idle" /\ st'[t] # "idle") =>
                   (st'[t] = "queued" /\ Count(work_queue', t) = 1)]_vars
  /\ <>(main_pc # "submit" /\ \A t \in Tasks : Started(t))

C27_Witness ==
  /\ mode = "all"
  /\ workers = default_workers
  /\ Cardinality(Running) = default_workers
  /\ Len(work_queue) = Len(available_crawlers) - default_workers
  /\ main_pc = "wait"

---------------------------------------------------------------------------
(* The checkers of one execute_queries call (SpecOrch) *)

\* C28: execute_queries builds one checker per platform of its list, all on
\* the one session it opened; building them acquires no token and sends no
\* request; a get_token() call on one checker changes the token and the
\* prerequest_sent flag of no other checker, and a checker's prerequest() runs
\* only inside a get_token() call made by a query on that checker.
C28_OneSessionLazyIndependentTokens ==
  /\ [](mode = "availability" /\ main_pc # "init" =>
          /\ DOMAIN checkers = SeqToSet(platforms)
          /\ \A p, q \in DOMAIN checkers :
               checkers[p].session = checkers[q].session
                 /\ checkers[p].session = <<HttpSession>>)
  /\ [][(main_pc = "init" /\ main_pc' # "init") =>
          \A c \in Checkers :
            /\ token'[c] = NoneVal
            /\ ~prerequest_sent'[c]
            /\ acquisitions'[c] = 0
            /\ checker_requests'[c] = 0
            /\ returned'[c] = <<>>]_vars
  /\ [][\A c \in Checkers :
          /\ returned'[c] # returned[c] =>
               /\ \E t \in Tasks : TaskName(t) = c /\ st[t] = "token"
               /\ \A d \in Checkers \ {c} :
                    /\ token'[d] = token[d]
                    /\ prerequest_sent'[d] = prerequest_sent[d]
                    /\ acquisitions'[d] = acquisitions[d]
          /\ acquisitions'[c] # acquisitions[c] =>
               (returned'[c] # returned[c] /\ ~prerequest_sent[c])]_vars

C28_Witness ==
  /\ mode = "availability"
  /\ platforms = <<"TRIVAGO", "BOOKING">>
  /\ DOMAIN checkers = {"BOOKING", "TRIVAGO"}
  /\ checkers["BOOKING"].session = checkers["TRIVAGO"].session
  /\ token["BOOKING"] = "t1" /\ prerequest_sent["BOOKING"]
  /\ token["TRIVAGO"] = NoneVal /\ ~prerequest_sent["TRIVAGO"]
  /\ st[1] = "done" /\ result[1] = <<response_available("TRIVAGO")>>

---------------------------------------------------------------------------
(* The page limit and the cursor of the pagination loops (Spec) *)

\* the crawl() calls of the loop over collection c (0: the crawler has one loop)
FetchesOf(c) == { i \in 1..Len(sent) : sent[i].coll = c }

\* C29: a crawler whose MAX_PAGES is a finite N fetches at most N pages in a
\* pagination loop and never requests a page numbered above N; with the
\* default MAX_PAGES a loop that ends without an exception ends on an empty
\* page.
C29_MaxPagesLimitsLoop ==
  /\ max_pages.finite =>
       /\ \A i \in 1..Len(sent) : sent[i].page <= max_pages.n
       /\ \A c \in 0..MaxCollections : Cardinality(FetchesOf(c)) <= max_pages.n
  /\ (~max_pages.finite /\ pc = "flush") =>
       (fetched # <<>> /\ fetched[Len(fetched)] = <<>>)

\* the endCursor the site put in its i-th page (DataOutcomes numbers them)
EndCursorOfPage(i) == i

\* C30: the first request of the Virgio loop carries no cursor (0), and the
\* request after the i-th page carries the endCursor of that page; the cursor
\* changes only when crawl() has parsed a page that has a next page, and the
\* next request is sent with it.
C30_CursorFollowsLastResponse ==
  /\ [](kind = "VIRGIO" =>
          \A i \in 1..Len(sent) :
            sent[i].cursor = IF i = 1 THEN 0 ELSE EndCursorOfPage(i - 1))
  /\ [][kind = "VIRGIO" =>
          /\ cursor' # cursor =>
               /\ pc = "parse" /\ pc' = "loop"
               /\ response.type = "data" /\ response.hasNext
               /\ cursor' = response.endCursor
               /\ DATAFRAME' = RecordsOf(kind, fetched')
          /\ (pc = "parse" /\ pc' = "loop") => cursor' = response.endCursor
          /\ sent' # sent =>
               /\ sent' = Append(sent, sent'[Len(sent')])
               /\ sent'[Len(sent')].cursor = cursor
               /\ Len(fetched) = Len(sent)]_vars

C30_Witness ==
  /\ kind = "VIRGIO"
  /\ pc = "done"
  /\ run_exc = "none"
  /\ Len(sent) = 3
  /\ sent[1].cursor = 0 /\ sent[2].cursor = 1 /\ sent[3].cursor = 2
  /\ NonEmpty(fetched) = 2

---------------------------------------------------------------------------
(* The records query() hands back (SpecOrch) *)

Flags(r) == <<r.available, r.valid, r.success>>

\* the records the tasks hold and the ones execute_queries returned
RecordsMade ==
  IF mode = "availability"
  THEN UNION { SeqToSet(result[t]) : t \in Tasks } \cup SeqToSet(reported)
  ELSE {}

\* C31: every record a query task holds or execute_queries returns has
\* available => valid and valid => success; response_available,
\* response_unavailable, response_invalid and response_failure (and the record
\* of query()'s except clause) carry the flags (T,T,T), (F,T,T), (F,F,T) and
\* (F,F,F).
C31_FlagsOrdered ==
  /\ \A r \in RecordsMade :
       /\ r.available => r.valid
       /\ r.valid => r.success
       /\ Flags(r) \in { <<TRUE, TRUE, TRUE>>, <<FALSE, TRUE, TRUE>>,
                         <<FALSE, FALSE, TRUE>>, <<FALSE, FALSE, FALSE>> }
  /\ \A p \in Checkers :
       /\ Flags(response_available(p)) = <<TRUE, TRUE, TRUE>>
       /\ Flags(response_unavailable(p)) = <<FALSE, TRUE, TRUE>>
       /\ Flags(response_invalid(p)) = <<FALSE, FALSE, TRUE>>
       /\ Flags(response_failure(p)) = <<FALSE, FALSE, FALSE>>
       /\ Flags(QueryFailure(p)) = <<FALSE, FALSE, FALSE>>

C31_Witness ==
  /\ mode = "availability"
  /\ main_pc = "returned"
  /\ platforms = <<"INSTAGRAM">>
  /\ reported = <<response_invalid("INSTAGRAM")>>
  /\ Flags(reported[1]) = <<FALSE, FALSE, TRUE>>

---------------------------------------------------------------------------
(* Request headers of instances running at the same time (SpecConc) *)

\* C32: every header of a request a crawler instance sends was set by the
\* class body or by that instance itself, never by another instance.
C32_HeadersPerInstance ==
  [][\A i \in ConcInstances :
       ConcAttempt(i) =>
         \A h \in DOMAIN request_headers(class_headers) :
           request_headers(class_headers)[h] \in {"class", i}]_vars

---------------------------------------------------------------------------
(* The token cache under concurrent calls (SpecTokConc) *)

NoAcquisitionRaised(c) == \A i \in 1..Len(returned[c]) : returned[c][i] # "Fault"

\* C33: when two threads call get_token() on one checker at the same time and
\* no prerequest() call raises, prerequest() is still invoked at most once on
\* that checker and every call that returns a token returns the same one.
C33_ConcurrentFirstUseGuarded ==
  \A c \in Checkers :
    NoAcquisitionRaised(c) =>
      /\ acquisitions[c] <= 1
      /\ Cardinality(TokenValues(returned[c])) <= 1

---------------------------------------------------------------------------
(* The end of a failed _request call, and run_crawler's outcome (Spec) *)

\* C34: a _request call that ends by raising has slept MAX_RETRIES - 1 backoff
\* sleeps, none of them after its last attempt, whether its attempts failed
\* with error responses or with transport faults.
C34_NoSleepAfterLastAttempt ==
  RequestRaised => Len(BackoffSleeps(sleeps)) = MAX_RETRIES - 1

\* the finally-path output_data call of this step raised
FinalFlushRaised ==
  /\ Len(writes') > Len(writes)
  /\ writes'[Len(writes')].result # "ok"

\* C35: every run_crawler call ends by returning one pair (name, flag), never by
\* raising; the flag is True exactly when the crawler was constructed, run()
\* ended without an exception and the output_data call of safe_run's finally
\* block did not raise; the pair, once returned, stays as it is.
C35_RunCrawlerAlwaysReturns ==
  [][(/\ (pc' = "done") = (outcome' # <<>>)
      /\ (outcome # <<>> => outcome' = outcome)
      /\ (pc # "done" /\ pc' = "done" =>
            outcome' = <<crawler_name,
                         pc = "finally" /\ run_exc = "none" /\ ~FinalFlushRaised>>))]_vars

C35_Witness ==
  /\ pc = "done"
  /\ outcome = <<crawler_name, TRUE>>
  /\ Len(fetched) >= 2
  /\ Len(writes) = 1

\* C36: while the accumulator holds no record, no to_csv call has been made and
\* data_saved is false, after the output_data call of run() and after the one
\* of the finally block alike.
C36_EmptyCrawlWritesNothing ==
  DATAFRAME = <<>> => writes = <<>> /\ ~data_saved

C36_Witness ==
  /\ pc = "done"
  /\ run_exc = "none"
  /\ fetched # <<>>
  /\ DATAFRAME = <<>>
  /\ writes = <<>>
  /\ ~data_saved

---------------------------------------------------------------------------
(* The ends of the pagination loops (Spec) *)

\* C37: when the Virgio loop parses a page with products and hasNextPage false,
\* that step appends the page's records to the accumulator and leaves the loop
\* for the output_data call of run(); once the loop is left, no request is
\* sent.
C37_LastPageKeptThenLoopEnds ==
  [][kind = "VIRGIO" =>
       (/\ (pc = "parse" /\ response.type = "data" /\ response.items # <<>>
              /\ ~response.hasNext) =>
             (/\ DATAFRAME' = DATAFRAME \o RowsOf(kind, <<response.items>>)
              /\ pc' = "flush")
        /\ LoopDone => (sent' = sent /\ request_count' = request_count))]_vars

C37_Witness ==
  /\ kind = "VIRGIO"
  /\ pc = "done"
  /\ run_exc = "none"
  /\ Len(sent) = 2
  /\ Len(fetched) = 2
  /\ fetched[2] # <<>>
  /\ Len(writes) = 1
  /\ SeqToSet(RowsOf(kind, fetched)) = SeqToSet(writes[1].rows)

\* C38: the TataCliq loop requests the page indices 0, 1, 2, ... in order and
\* requests index p only while p <= total_pages, the count of the last parsed
\* page, so with total_pages = T it has made at most T + 1 requests; at the test
\* with page_number > total_pages it leaves the loop, whatever the pages held.
C38_TotalPagesBoundsLoop ==
  [][kind = "TATACLIQ" =>
       (/\ sent' # sent =>
             (/\ sent' = Append(sent, sent'[Len(sent')])
              /\ sent'[Len(sent')].page = Len(sent)
              /\ sent'[Len(sent')].page <= total_pages
              /\ Len(sent') <= total_pages + 1)
        /\ (pc = "loop" /\ page_number > total_pages) => pc' = "flush"
        /\ LoopDone => sent' = sent)]_vars

C38_Witness ==
  /\ kind = "TATACLIQ"
  /\ pc = "done"
  /\ run_exc = "none"
  /\ total_pages = 1
  /\ Len(sent) = 2
  /\ Len(fetched) = 2
  /\ fetched[1] # <<>> /\ fetched[2] # <<>>

\* the collection numbers of the requests sent so far, in the order sent
CollsOf(s) == [i \in 1..Len(s) |-> s[i].coll]

====
